---- MODULE Spec2Model ----
(***************************************************************************)
(* Model of the Fruit Jam USB MIDI tester: the descriptor parser           *)
(* (sb_usb_descriptor.py), the device scanner and polling read generator   *)
(* (sb_usb_midi.py) and the scan/connect/read loop of main() (code.py).    *)
(*                                                                         *)
(* Python sequences are 0-indexed; TLA+ sequences are 1-indexed.  At(d, i) *)
(* is Python's d[i] and Slice(d, a, b) is Python's d[a:b].                 *)
(***************************************************************************)
EXTENDS Integers, Sequences, FiniteSets, TLC

\* ------------------------------------------------------------------------
\* Bounds of the model
\* ------------------------------------------------------------------------
\* most devices attached to the bus at once
MaxDevices == 2
\* most iterations of the read loop explored over one run
MaxPulls == 4
\* most milliseconds the clock advances between two pulls of the generator
MaxTick == 2
\* find_usb_device calls counted within one session (the counter saturates)
MaxPasses == 1
\* largest endpoint bInterval of the devices whose polling period is computed
MaxInterval == 16
\* most iterations of the read loop while the pressure thinning is explored
MaxEvents == 14
\* most bytes of a blob of arbitrary small bytes handed to the parser
MaxBlob == 4
\* most sub-descriptors in a configuration blob handed to the parser
MaxRecords == 3

\* ------------------------------------------------------------------------
\* Byte helpers
\* ------------------------------------------------------------------------
At(d, i) == d[i + 1]

Min(a, b) == IF a < b THEN a ELSE b

\* Mutant of Slice: the last byte of the range is left out
SliceShort(d, a, b) == SubSeq(d, a + 1, Min(b, Len(d)) - 1)

Slice(d, a, b) == SubSeq(d, a + 1, Min(b, Len(d)))

\* bytearray(length) filled from the start with what the device sent
Pad(wire, length) ==
    [i \in 1..length |-> IF i <= Len(wire) THEN wire[i] ELSE 0]

\* Mutant of InputMaskSet: the mask is 0x01
InputMaskSetBit0(addr) == addr % 2 = 1

\* e.bEndpointAddress & 0x80
InputMaskSet(addr) == (addr \div 128) % 2 = 1

\* ------------------------------------------------------------------------
\* sb_usb_descriptor.py
\* ------------------------------------------------------------------------
RECURSIVE SplitFrom(_, _, _, _)
SplitFrom(data, i, cursor, slices) ==
    LET limit == Len(data) IN
    IF i >= limit THEN slices
    ELSE IF cursor = limit THEN slices
    ELSE LET length == At(data, cursor) IN
         IF length = 0 THEN slices
         ELSE IF cursor + length > limit THEN slices
         ELSE SplitFrom(data, i + 1, cursor + length,
                        Append(slices, Slice(data, cursor, cursor + length)))

split_desc(data) == SplitFrom(data, 0, 0, <<>>)

\* Mutant of ConfigDesc: the type tag is not validated
ConfigDescAnyType(d) ==
    IF Len(d) # 9 \/ At(d, 0) # 9
    THEN [ok |-> FALSE]
    ELSE [ok |-> TRUE,
          bNumInterfaces |-> At(d, 4),
          bConfigurationValue |-> At(d, 5),
          bMaxPower |-> At(d, 8)]

\* A constructor returns [ok |-> FALSE] when it raises ValueError
ConfigDesc(d) ==
    IF Len(d) # 9 \/ At(d, 0) # 9 \/ At(d, 1) # 2
    THEN [ok |-> FALSE]
    ELSE [ok |-> TRUE,
          bNumInterfaces |-> At(d, 4),
          bConfigurationValue |-> At(d, 5),
          bMaxPower |-> At(d, 8)]

InterfaceDesc(d) ==
    IF Len(d) # 9 \/ At(d, 0) # 9 \/ At(d, 1) # 4
    THEN [ok |-> FALSE]
    ELSE [ok |-> TRUE,
          bInterfaceNumber |-> At(d, 2),
          bNumEndpoints |-> At(d, 4),
          bInterfaceClass |-> At(d, 5),
          bInterfaceSubClass |-> At(d, 6),
          bInterfaceProtocol |-> At(d, 7),
          endpoint |-> <<>>]

EndpointDesc(d) ==
    IF Len(d) < 7 \/ At(d, 0) < 7 \/ At(d, 1) # 5
    THEN [ok |-> FALSE]
    ELSE [ok |-> TRUE,
          bEndpointAddress |-> At(d, 2),
          bmAttributes |-> At(d, 3),
          wMaxPacketSize |-> At(d, 5) * 256 + At(d, 4),
          bInterval |-> At(d, 6)]

\* InterfaceDesc.add_endpoint_descriptor applied to interfaces[interface_num]
add_endpoint_descriptor(interfaces, interface_num, e) ==
    [interfaces EXCEPT ![interface_num + 1].endpoint = Append(@, e)]

\* elif 7 <= bLength <= 9 and bDescriptorType == 0x05
IsEndpointTag(bLength, bDescriptorType) ==
    7 <= bLength /\ bLength <= 9 /\ bDescriptorType = 5

\* The loop of Descriptor.read_configuration over the split sub-descriptors.
\* err is "none" or "ValueError".
RECURSIVE ReadConfigLoop(_, _, _, _, _)
ReadConfigLoop(list, k, configs, interfaces, interface_num) ==
    IF k > Len(list)
    THEN [err |-> "none", configs |-> configs, interfaces |-> interfaces]
    ELSE LET d == list[k] IN
         IF Len(d) < 2
         THEN ReadConfigLoop(list, k + 1, configs, interfaces, interface_num)
         ELSE LET bLength == At(d, 0)
                  bDescriptorType == At(d, 1)
                  tag == bLength * 256 + bDescriptorType
              IN
              IF tag = 2306
              THEN LET c == ConfigDesc(d) IN
                   IF ~c.ok
                   THEN [err |-> "ValueError", configs |-> configs,
                         interfaces |-> interfaces]
                   ELSE ReadConfigLoop(list, k + 1, Append(configs, c),
                                       interfaces, interface_num)
              ELSE IF tag = 2308
              THEN LET n == InterfaceDesc(d) IN
                   IF ~n.ok
                   THEN [err |-> "ValueError", configs |-> configs,
                         interfaces |-> interfaces]
                   ELSE ReadConfigLoop(list, k + 1, configs,
                                       Append(interfaces, n),
                                       interface_num + 1)
              ELSE IF IsEndpointTag(bLength, bDescriptorType)
              THEN IF interface_num >= 0
                   THEN LET e == EndpointDesc(d) IN
                        IF ~e.ok
                        THEN [err |-> "ValueError", configs |-> configs,
                              interfaces |-> interfaces]
                        ELSE ReadConfigLoop(list, k + 1, configs,
                                 add_endpoint_descriptor(interfaces,
                                                         interface_num, e),
                                 interface_num)
                   ELSE [err |-> "ValueError", configs |-> configs,
                         interfaces |-> interfaces]
              ELSE ReadConfigLoop(list, k + 1, configs, interfaces,
                                  interface_num)

\* Mutant of ResetLists: the list of the previous call is kept
ResetListsKeep(prev) == prev

\* self.configs = [] and self.interfaces = [] at the start of a call
ResetLists(prev) == <<>>

\* Descriptor.__init__: the empty placeholder configuration
EmptyPlaceholder == [configs |-> <<>>, interfaces |-> <<>>]

\* Descriptor.read_configuration on the 256-byte buffer get_desc returned,
\* for the Descriptor self, whose lists an earlier call may have filled
read_configuration_on(self, data) ==
    LET config_desc_list == split_desc(data) IN
    IF Len(config_desc_list) = 0
    THEN [err |-> "ValueError", configs |-> self.configs,
          interfaces |-> self.interfaces]
    ELSE ReadConfigLoop(config_desc_list, 1, ResetLists(self.configs),
                        ResetLists(self.interfaces), -1)

\* The first read_configuration call on a Descriptor
read_configuration(data) == read_configuration_on(EmptyPlaceholder, data)

\* Descriptor.__init__ on the 18-byte buffer get_desc returned
DescriptorInit(device_desc) ==
    IF At(device_desc, 0) # 18
    THEN [ok |-> FALSE]
    ELSE [ok |-> TRUE,
          device_desc_bytes |-> device_desc,
          bDeviceClass |-> At(device_desc, 4),
          bDeviceSubClass |-> At(device_desc, 5),
          bDeviceProtocol |-> At(device_desc, 6),
          idVendor |-> At(device_desc, 9) * 256 + At(device_desc, 8),
          idProduct |-> At(device_desc, 11) * 256 + At(device_desc, 10)]

dev_class_subclass_protocol(desc) ==
    <<desc.bDeviceClass, desc.bDeviceSubClass, desc.bDeviceProtocol>>

\* (None, None, None) is the triple <<-1, -1, -1>>: no byte is negative
NoneTriple == <<-1, -1, -1>>

RECURSIVE ClassFrom(_, _, _)
ClassFrom(interfaces, k, interface) ==
    IF k > Len(interfaces) THEN NoneTriple
    ELSE IF interfaces[k].bInterfaceNumber = interface
    THEN <<interfaces[k].bInterfaceClass,
           interfaces[k].bInterfaceSubClass,
           interfaces[k].bInterfaceProtocol>>
    ELSE ClassFrom(interfaces, k + 1, interface)

class_subclass_protocol(interfaces, interface) ==
    ClassFrom(interfaces, 1, interface)

\* The endpoints e of i.endpoint, in order, with (bit 7 set) = want_input
RECURSIVE FilterEndpoints(_, _, _)
FilterEndpoints(eps, k, want_input) ==
    IF k > Len(eps) THEN <<>>
    ELSE IF InputMaskSet(eps[k].bEndpointAddress) = want_input
    THEN <<eps[k]>> \o FilterEndpoints(eps, k + 1, want_input)
    ELSE FilterEndpoints(eps, k + 1, want_input)

RECURSIVE EndpointsFrom(_, _, _, _)
EndpointsFrom(interfaces, k, interface, want_input) ==
    IF k > Len(interfaces) THEN <<>>
    ELSE IF interfaces[k].bInterfaceNumber = interface
    THEN FilterEndpoints(interfaces[k].endpoint, 1, want_input)
         \o EndpointsFrom(interfaces, k + 1, interface, want_input)
    ELSE EndpointsFrom(interfaces, k + 1, interface, want_input)

output_endpoints(interfaces, interface) ==
    EndpointsFrom(interfaces, 1, interface, FALSE)

input_endpoints(interfaces, interface) ==
    EndpointsFrom(interfaces, 1, interface, TRUE)

\* ------------------------------------------------------------------------
\* Devices on the bus.  A device is described by what its firmware reports:
\*   blen  bLength byte of its device descriptor
\*   dev   (class, subclass, protocol) of the device descriptor
\*   pid   idProduct
\*   cfg   "tree": a configuration with the interfaces ifs; "empty": the
\*         device answers the configuration request with no bytes;
\*         "lead_ep": an endpoint descriptor comes before the first interface
\*   ifs   interfaces [num, tri, eps], eps a sequence of [addr, mps, ival]
\*   speed negotiated link speed
\* The *Wire operators give the bytes such a device sends.
\* ------------------------------------------------------------------------
DeviceDescWire(p) ==
    <<p.blen, 1, 0, 2, p.dev[1], p.dev[2], p.dev[3], 8,
      154, 35, p.pid % 256, p.pid \div 256, 0, 1, 1, 2, 0, 1>>

EpWire(e) ==
    <<9, 5, e.addr, 2, e.mps % 256, e.mps \div 256, e.ival, 0, 0>>

RECURSIVE EpsWire(_, _)
EpsWire(eps, k) ==
    IF k > Len(eps) THEN <<>> ELSE EpWire(eps[k]) \o EpsWire(eps, k + 1)

RECURSIVE IfsWire(_, _)
IfsWire(ifs, k) ==
    IF k > Len(ifs) THEN <<>>
    ELSE <<9, 4, ifs[k].num, 0, Len(ifs[k].eps),
           ifs[k].tri[1], ifs[k].tri[2], ifs[k].tri[3], 0>>
         \o EpsWire(ifs[k].eps, 1) \o IfsWire(ifs, k + 1)

ConfigWire(p) ==
    IF p.cfg = "empty" THEN <<>>
    ELSE LET lead == IF p.cfg = "lead_ep"
                     THEN EpWire([addr |-> 129, mps |-> 64, ival |-> 1])
                     ELSE <<>>
             body == lead \o IfsWire(p.ifs, 1)
             total == 9 + Len(body)
         IN <<9, 2, total % 256, total \div 256, Len(p.ifs), 1, 0, 128, 50>>
            \o body

\* The target signature: device, interface 0, interface 1
Sig == << <<0, 0, 0>>, <<1, 1, 0>>, <<1, 3, 0>> >>

OutEp == [addr |-> 1, mps |-> 64, ival |-> 0]

InEp(mps, ival) == [addr |-> 129, mps |-> mps, ival |-> ival]

\* A two-interface device with the triples s; eps are interface 1's endpoints
TwoIfDevice(s, pid, eps, speed) ==
    [blen |-> 18, dev |-> s[1], pid |-> pid, cfg |-> "tree", speed |-> speed,
     ifs |-> << [num |-> 0, tri |-> s[2], eps |-> <<>>],
                [num |-> 1, tri |-> s[3], eps |-> eps] >>]

MidiDevice(speed, mps, ival) ==
    TwoIfDevice(Sig, 1, <<OutEp, InEp(mps, ival)>>, speed)

\* The signature, but interface 1 has only an OUT endpoint
MidiNoInDevice == TwoIfDevice(Sig, 2, <<OutEp>>, "full")

\* A keyboard: one HID interface
HidDevice ==
    [blen |-> 18, dev |-> <<0, 0, 0>>, pid |-> 3, cfg |-> "tree",
     speed |-> "low",
     ifs |-> << [num |-> 0, tri |-> <<3, 1, 1>>,
                 eps |-> <<[addr |-> 129, mps |-> 8, ival |-> 10]>>] >>]

BadLenDevice == [MidiDevice("full", 64, 1) EXCEPT !.blen = 17, !.pid = 4]

EmptyCfgDevice == [MidiDevice("full", 64, 1) EXCEPT !.cfg = "empty", !.pid = 5]

LeadEpDevice == [MidiDevice("full", 64, 1) EXCEPT !.cfg = "lead_ep", !.pid = 6]

\* Interface 0 or interface 1 is not in the configuration
OnlyIfDevice(n) ==
    [blen |-> 18, dev |-> <<0, 0, 0>>, pid |-> 7 + n, cfg |-> "tree",
     speed |-> "full",
     ifs |-> << [num |-> n, tri |-> Sig[n + 2],
                 eps |-> <<OutEp, InEp(64, 1)>>] >>]

\* Values a class, subclass or protocol field takes in the variants
FieldVals == {0, 1, 3}

\* The signature with field f of triple t set to v
Vary(t, f, v) == [Sig EXCEPT ![t][f] = v]

VariantDevices ==
    {TwoIfDevice(Vary(t, f, v), IF Vary(t, f, v) = Sig THEN 1
                                ELSE 16 * t + 4 * f + v,
                 <<OutEp, InEp(64, 1)>>, "full") :
        t \in 1..3, f \in 1..3, v \in FieldVals}

\* Devices of the main specification
SmallPool == {MidiDevice("full", 64, 1), HidDevice, LeadEpDevice}

\* Devices enumerated before the one the scan specification classifies
PrefixPool == {HidDevice, BadLenDevice, LeadEpDevice}

\* Devices whose classification the scan specification explores
ScanPool ==
    VariantDevices \cup {OnlyIfDevice(0), OnlyIfDevice(1), EmptyCfgDevice,
                         BadLenDevice, LeadEpDevice}

\* Devices whose endpoint the read specification polls
ReadPool ==
    {MidiDevice("full", 64, 1), MidiDevice("full", 8, 2),
     MidiDevice("low", 8, 3), MidiDevice("high", 64, 4),
     MidiDevice("high", 64, 5), MidiDevice("high", 64, 0),
     MidiDevice("full", 4, 4), MidiNoInDevice}

RECURSIVE SeqsUpTo(_, _)
SeqsUpTo(S, n) ==
    IF n = 0 THEN {<<>>}
    ELSE LET shorter == SeqsUpTo(S, n - 1) IN
         shorter \cup {Append(q, x) : q \in shorter, x \in S}

\* MIDI-USB packets the attached device sends: note on, timing clock,
\* polyphonic key pressure, SysEx start
Packets ==
    {<<9, 144, 60, 127>>, <<15, 248, 0, 0>>, <<10, 160, 60, 64>>,
     <<4, 240, 126, 127>>}

\* What one successful bulk read may put in the buffer: nothing, one packet,
\* or two packets back to back (note on and note off, a SysEx message, note
\* on and timing clock)
ReadData ==
    {<<>>} \cup Packets
    \cup {<<9, 144, 60, 127, 9, 128, 60, 0>>, <<4, 240, 126, 127, 7, 1, 2, 247>>,
          <<9, 144, 60, 127, 15, 248, 0, 0>>}

\* The contents sent while the timing of the reads is explored
TimedData ==
    {<<>>, <<9, 144, 60, 127>>, <<9, 144, 60, 127, 9, 128, 60, 0>>}

\* Devices whose polling period the read generator computes: every speed
\* and every bInterval of 1..MaxInterval
PollPool ==
    {MidiDevice(s, 64, b) : s \in {"low", "full", "high"}, b \in 1..MaxInterval}

\* Packets sent while the pressure thinning is explored: polyphonic key
\* pressure, channel pressure, note on
PressureData == {<<10, 160, 60, 64>>, <<13, 208, 64, 0>>, <<9, 144, 60, 127>>}

\* The configuration descriptor 09 02 12 00 01 01 00 80 32
CfgRecord == <<9, 2, 18, 0, 1, 1, 0, 128, 50>>

\* Sub-descriptors a configuration blob is made of: the configuration,
\* interface 0, interface 1, a 7-byte IN endpoint, a 9-byte OUT endpoint,
\* a second IN endpoint, a class-specific descriptor, a 10-byte descriptor
\* of type 5, a 1-byte descriptor
RecordPool ==
    {CfgRecord,
     <<9, 4, 0, 0, 0, 1, 1, 0, 0>>,
     <<9, 4, 1, 0, 2, 1, 3, 0, 0>>,
     <<7, 5, 129, 2, 64, 0, 0>>,
     <<9, 5, 1, 2, 64, 0, 0, 0, 0>>,
     <<7, 5, 130, 3, 8, 0, 4>>,
     <<7, 36, 1, 0, 1, 9, 0>>,
     <<10, 5, 131, 2, 64, 0, 0, 0, 0, 0>>,
     <<1>>}

RECURSIVE Concat(_, _)
Concat(ss, k) == IF k > Len(ss) THEN <<>> ELSE ss[k] \o Concat(ss, k + 1)

ConfigBlobs == {Concat(q, 1) : q \in SeqsUpTo(RecordPool, MaxRecords)}

\* Arbitrary blobs of small bytes
SmallBlobs == SeqsUpTo({0, 1, 2, 3}, MaxBlob)

\* The configuration descriptor with a wrong length byte, a wrong type, one
\* byte less and one byte more
CfgVariants ==
    {[CfgRecord EXCEPT ![1] = 8], [CfgRecord EXCEPT ![1] = 10],
     [CfgRecord EXCEPT ![2] = 4], SubSeq(CfgRecord, 1, 8),
     CfgRecord \o <<0>>, [CfgRecord \o <<0>> EXCEPT ![1] = 10]}

Blobs == SmallBlobs \cup ConfigBlobs \cup CfgVariants

\* ------------------------------------------------------------------------
\* sb_usb_midi.py: find_usb_device
\* ------------------------------------------------------------------------
NoneVal == [none |-> TRUE]

\* Mutant of IsUSBError: a timeout is not taken for a USBError
IsUSBErrorNoTimeout(exc) == exc = "USBError"

\* usb.core: USBTimeoutError is a subclass of USBError
IsUSBError(exc) == exc \in {"USBError", "USBTimeoutError"}

\* get_desc: the buffer of `length` bytes after the control transfer
get_desc(wire, length) == Pad(Slice(wire, 0, length), length)

\* k = str(desc.to_bytes()): the text of the 18 bytes, one key per content
Fingerprint(desc) == desc.device_desc_bytes

\* Mutant of IsSeen: the cache is never consulted
IsSeenNever(k, cache) == FALSE

IsSeen(k, cache) == k \in cache

Remember(k, cache) == cache \cup {k}

\* Mutant of Matches: the protocol fields are not compared
MatchesIgnoringProtocol(d, i0, i1) ==
    /\ d[1] = 0 /\ d[2] = 0
    /\ i0[1] = 1 /\ i0[2] = 1
    /\ i1[1] = 1 /\ i1[2] = 3

Matches(d, i0, i1) ==
    d = <<0, 0, 0>> /\ i0 = <<1, 1, 0>> /\ i1 = <<1, 3, 0>>

ScanResult(device, desc) ==
    [device |-> device,
     descriptor |-> desc,
     vid |-> desc.idVendor,
     pid |-> desc.idProduct,
     dev_info |-> dev_class_subclass_protocol(desc),
     int0_info |-> class_subclass_protocol(desc.interfaces, 0),
     int1_info |-> class_subclass_protocol(desc.interfaces, 1)]

\* Mutant of SeenOutcome: a seen device is skipped like a failing one and
\* the loop goes on with the next device
SeenOutcomeContinues(cache) ==
    [kind |-> "raise", exc |-> "ValueError", result |-> NoneVal,
     cache |-> cache, types |-> <<1>>, why |-> "seen"]

\* if k in device_cache: return None
SeenOutcome(cache) ==
    [kind |-> "return", exc |-> "none", result |-> NoneVal,
     cache |-> cache, types |-> <<1>>, why |-> "seen"]

\* The try body of the loop for the device i, whose firmware is p.
\* fault.at names the control transfer that fails (1: device descriptor,
\* 2: configuration descriptor, 0: none) and fault.exc what it raises.
\* i is the device handle.  kind is "raise" (exc) or "return" (result);
\* types lists the descriptor types requested on the bus, in order; why
\* names the statement that ended the body.
ScanTry(i, p, cache, fault) ==
    IF fault.at = 1
    THEN [kind |-> "raise", exc |-> fault.exc, result |-> NoneVal,
          cache |-> cache, types |-> <<1>>, why |-> "device_transfer"]
    ELSE LET desc == DescriptorInit(get_desc(DeviceDescWire(p), 18)) IN
    IF ~desc.ok
    THEN [kind |-> "raise", exc |-> "ValueError", result |-> NoneVal,
          cache |-> cache, types |-> <<1>>, why |-> "device_length"]
    ELSE LET k == Fingerprint(desc) IN
    IF IsSeen(k, cache)
    THEN SeenOutcome(cache)
    ELSE IF fault.at = 2
    THEN [kind |-> "raise", exc |-> fault.exc, result |-> NoneVal,
          cache |-> Remember(k, cache), types |-> <<1, 2>>,
          why |-> "config_transfer"]
    ELSE LET cfg == read_configuration(get_desc(ConfigWire(p), 256)) IN
    IF cfg.err # "none"
    THEN [kind |-> "raise", exc |-> cfg.err, result |-> NoneVal,
          cache |-> Remember(k, cache), types |-> <<1, 2>>,
          why |-> "config_parse"]
    ELSE LET full == [ok |-> TRUE,
                      device_desc_bytes |-> desc.device_desc_bytes,
                      bDeviceClass |-> desc.bDeviceClass,
                      bDeviceSubClass |-> desc.bDeviceSubClass,
                      bDeviceProtocol |-> desc.bDeviceProtocol,
                      idVendor |-> desc.idVendor,
                      idProduct |-> desc.idProduct,
                      configs |-> cfg.configs,
                      interfaces |-> cfg.interfaces]
             d == dev_class_subclass_protocol(full)
             i0 == class_subclass_protocol(full.interfaces, 0)
             i1 == class_subclass_protocol(full.interfaces, 1)
         IN [kind |-> "return", exc |-> "none",
             result |-> IF Matches(d, i0, i1) THEN ScanResult(i, full)
                        ELSE NoneVal,
             cache |-> Remember(k, cache), types |-> <<1, 2>>,
             why |-> "classified"]

\* The except clauses of the loop: is the exception caught and the loop
\* continued with the next device?
ScanCatches(exc) == exc = "ValueError" \/ IsUSBError(exc)

Faults ==
    {[at |-> 0, exc |-> "none"]}
    \cup {[at |-> a, exc |-> e] :
            a \in {1, 2}, e \in {"USBError", "USBTimeoutError"}}

\* ------------------------------------------------------------------------
\* sb_usb_midi.py: elapsed_ms_generator and MIDIInputDevice
\* ------------------------------------------------------------------------
\* supervisor.ticks_ms rolls over at 2**29
TicksPeriod == 536870912

\* mask = 0x3fffffff
TicksMask == 1073741823

\* x & mask, for the mask of low bits above
AndMask(x) == x % (TicksMask + 1)

\* delta = (t1 - t0) & mask
ElapsedDelta(t0, t1) == AndMask(t1 - t0)

\* MIDIInputDevice.__init__ after set_configuration: endpoint resolution
ResolveEndpoints(device, descriptor) ==
    LET ins == input_endpoints(descriptor.interfaces, 1)
        outs == output_endpoints(descriptor.interfaces, 1)
    IN [device |-> device,
        int1_endpoint_in |-> IF Len(ins) < 1 THEN NoneVal ELSE ins[1],
        int1_endpoint_out |-> IF Len(outs) < 1 THEN NoneVal ELSE outs[1]]

\* The generator object before its first next(): nothing of its body has run
NewGenerator ==
    [state |-> "created", in_addr |-> 0, interval |-> 0, max_packet |-> 0,
     poll_ms |-> 0, poll_target |-> 0, t0 |-> 0]

\* The generator after an exception left its body: its frame is gone
FinishedGenerator == [NewGenerator EXCEPT !.state = "finished"]

\* The generator the for loop dropped at a break, suspended at its yield
DroppedGenerator == [NewGenerator EXCEPT !.state = "dropped"]

\* Mutant of PollPeriod: the 125 us units are not converted to ms
PollPeriodUnshifted(speed, bInterval) ==
    IF speed = "high" THEN 2 * (2 ^ (bInterval - 1)) ELSE bInterval

\* interval = (2 << (interval - 1)) >> 3 for a high-speed device
PollPeriod(speed, bInterval) ==
    IF speed = "high" THEN (2 * (2 ^ (bInterval - 1))) \div 8 ELSE bInterval

\* Mutant of PollTarget: half of the interval
PollTargetHalf(interval) == interval \div 2

\* poll_target = (interval * 3) >> 2
PollTarget(interval) == (interval * 3) \div 4

\* if poll_ms < poll_target: yield None; continue
TooSoon(poll_ms, poll_target) == poll_ms < poll_target

NoItem == [kind |-> "None", bytes |-> <<>>]

\* One pass of the polling loop (lines 174-194) with the clock reading t1;
\* io is what device.read does if it is called.
PollOnce(g, t1, io) ==
    LET delta == ElapsedDelta(g.t0, t1)
        poll_ms == g.poll_ms + delta
    IN IF TooSoon(poll_ms, g.poll_target)
       THEN [gen |-> [g EXCEPT !.state = "suspended", !.poll_ms = poll_ms,
                               !.t0 = t1],
             kind |-> "yield", item |-> NoItem, exc |-> "none",
             read |-> FALSE, delta |-> delta, period |-> g.interval,
             timed |-> TRUE]
       ELSE LET g2 == [g EXCEPT !.poll_ms = 0, !.t0 = t1] IN
            IF io.kind = "data"
            THEN [gen |-> [g2 EXCEPT !.state = "suspended"],
                  kind |-> "yield",
                  item |-> [kind |-> "data",
                            bytes |-> Slice(io.bytes, 0, Len(io.bytes))],
                  exc |-> "none", read |-> TRUE, delta |-> delta,
                  period |-> g.interval, timed |-> TRUE]
            ELSE IF io.kind = "USBTimeoutError"
            THEN [gen |-> [g2 EXCEPT !.state = "suspended"],
                  kind |-> "yield", item |-> NoItem, exc |-> "none",
                  read |-> TRUE, delta |-> delta, period |-> g.interval,
                  timed |-> TRUE]
            ELSE [gen |-> FinishedGenerator,
                  kind |-> "raise", item |-> NoItem, exc |-> io.kind,
                  read |-> TRUE, delta |-> delta, period |-> g.interval,
                  timed |-> TRUE]

\* next() of the generator int1_read_generator returns.  now0 and now1 are
\* the clock at the first and the second ticks_ms() call of a first pull
\* (one reading, now0 = now1, on later pulls).
GenNext(g, dev, speed, now0, now1, io) ==
    IF g.state = "created"
    THEN IF dev.int1_endpoint_in = NoneVal
         THEN [gen |-> FinishedGenerator, kind |-> "raise",
               item |-> NoItem, exc |-> "AttributeError", read |-> FALSE,
               delta |-> 0, period |-> 0, timed |-> FALSE]
         ELSE IF speed = "high" /\ dev.int1_endpoint_in.bInterval - 1 < 0
         THEN [gen |-> FinishedGenerator, kind |-> "raise",
               item |-> NoItem, exc |-> "ValueError", read |-> FALSE,
               delta |-> 0, period |-> 0, timed |-> FALSE]
         ELSE LET interval ==
                      PollPeriod(speed, dev.int1_endpoint_in.bInterval)
                  started ==
                      [state |-> "running",
                       in_addr |-> dev.int1_endpoint_in.bEndpointAddress,
                       interval |-> interval,
                       max_packet |->
                           Min(64, dev.int1_endpoint_in.wMaxPacketSize),
                       poll_ms |-> 0,
                       poll_target |-> PollTarget(interval),
                       t0 |-> now0]
              IN PollOnce(started, now1, io)
    ELSE PollOnce(g, now1, io)

\* ------------------------------------------------------------------------
\* code.py: main
\* ------------------------------------------------------------------------
\* SKIP = const(6)
SKIP == 6

\* except USBError / except ValueError around the body of the outer loop
MainCatches(exc) == IsUSBError(exc) \/ exc = "ValueError"

\* Mutant of FreshCache: the cache is carried over
FreshCacheKeeps(cache) == cache

\* device_cache = {} at the top of the outer loop
FreshCache(cache) == {}

NoOut == [kind |-> "none", bytes |-> <<>>]

\* Mutant of FallingEdge: the level of the button is tested, not the edge
FallingEdgeLevel(button_value, prev) == ~button_value

\* if not button_1.value: if prev_b1: (the button reads False while pressed)
FallingEdge(button_value, prev) == ~button_value /\ prev

\* Mutant of Thinned: the message that finds the counter at 1 is passed
ThinnedBelowOne(skip) == skip > 1

\* if pp_skip > 0: / if cp_skip > 0: the pressure message is ignored
Thinned(skip) == skip > 0

\* The body of the for loop over the input events, for one yielded item.
\* button_value is button_1.value (FALSE while the button is held down).
\* ctl is "break", "continue" (an early continue), "done" (the body ran to
\* its end) or "crash" (exc is raised and no except clause catches it).
MainBody(it, button_value, prev, pp, cp) ==
    LET data == it.bytes
        stay == [ctl |-> "continue", exc |-> "none", prev_b1 |-> prev,
                 pp_skip |-> pp, cp_skip |-> cp, out |-> NoOut]
    IN
    IF FallingEdge(button_value, prev)
    THEN [stay EXCEPT !.ctl = "break", !.prev_b1 = FALSE]
    ELSE LET s1 == [stay EXCEPT !.prev_b1 = IF button_value THEN TRUE
                                            ELSE prev]
    IN
    IF it.kind = "None" THEN s1
    ELSE IF Len(data) < 1
    THEN [s1 EXCEPT !.ctl = "crash", !.exc = "IndexError"]
    ELSE LET cin == At(data, 0) % 16 IN
    IF cin = 15 /\ 248 <= At(data, 1) /\ At(data, 1) <= 255 THEN s1
    ELSE IF cin = 10 /\ Thinned(pp) THEN [s1 EXCEPT !.pp_skip = pp - 1]
    ELSE IF cin = 13 /\ Thinned(cp) THEN [s1 EXCEPT !.cp_skip = cp - 1]
    ELSE IF cin \notin {8, 9, 10, 11, 13, 14} /\ Len(data) # 4
    THEN [s1 EXCEPT !.ctl = "crash", !.exc = "TypeError"]
    ELSE [s1 EXCEPT !.ctl = "done",
                    !.pp_skip = IF cin = 10 THEN SKIP ELSE pp,
                    !.cp_skip = IF cin = 13 THEN SKIP ELSE cp,
                    !.out = [kind |-> "echo", bytes |-> data]]

\* ------------------------------------------------------------------------
\* State
\* ------------------------------------------------------------------------
VARIABLES
    bus,          \* the attached devices, in enumeration order
    clock,        \* supervisor.ticks_ms()
    pc,           \* where main is: "scan", "connect", "read", "crashed"
    device_cache, \* main's device_cache: the fingerprints seen
    r,            \* main's r: the ScanResult, or NoneVal
    scan_idx,     \* device the running find_usb_device call is at; 0: no call
    dev,          \* main's dev: the MIDIInputDevice, or NoneVal
    gen,          \* the generator dev.input_event_generator() returned
    item,         \* Pull: the item the generator yielded
    prev_b1,      \* main's prev_b1
    pp_skip,      \* main's pp_skip
    cp_skip,      \* main's cp_skip
    out,          \* Pull: what the loop body echoed
    passes,       \* find_usb_device calls returned in this session
    \* What the action just taken did (cleared by every other action):
    step,         \* ScanDevice: the device examined and how its body ended
    calls,        \* Connect: the device calls MIDIInputDevice(r) made
    obs,          \* Pull: what the generator did on the clock and the bus:
                  \*   pulled  next() was called; timed: the polling loop ran
                  \*   read    device.read was called; io: what it did;
                  \*           rx: the bytes it put in the buffer
                  \*   t0, t1  the two clock readings elapsed_ms_generator
                  \*           compared; delta: what it yielded; tick: the
                  \*           time that passed between the two readings
                  \*   elapsed time since the previous device.read, or since
                  \*           the first pull; rolled: the clock wrapped in
                  \*           that time
                  \*   period  the generator's interval, in ms
    end_reason,   \* why the session ended or the program stopped
    pulls,        \* iterations of the read loop so far
    counted,      \* pressure messages the loop body parsed since pp_skip
                  \* and cp_skip were set to SKIP: [pp, cp]
    blob,         \* bytes handed to the descriptor parser
    parsed        \* what the parser function last applied to blob returned

vars == <<bus, clock, pc, device_cache, r, scan_idx, dev, gen, item, prev_b1,
          pp_skip, cp_skip, out, passes, step, calls, obs, end_reason,
          pulls, counted, blob, parsed>>

NoReason == <<"none", "none">>

NoStep ==
    [idx |-> 0, why |-> "none", exc |-> "none", caught |-> FALSE,
     types |-> <<>>, returned |-> FALSE]

NoObs ==
    [pulled |-> FALSE, timed |-> FALSE, read |-> FALSE, io |-> "none",
     elapsed |-> 0, rolled |-> FALSE, rx |-> <<>>, t0 |-> 0, t1 |-> 0,
     delta |-> 0, tick |-> 0, period |-> 0]

NoCount == [pp |-> 0, cp |-> 0]

NoParse == [fn |-> "none"]

InitOf(buses, clocks, buttons, blobs) ==
    /\ bus \in buses
    /\ clock \in clocks
    /\ pc = "scan"
    /\ device_cache = FreshCache({})
    /\ r = NoneVal
    /\ scan_idx = 0
    /\ dev = NoneVal
    /\ gen = NoneVal
    /\ item = NoItem
    /\ prev_b1 \in buttons
    /\ pp_skip = SKIP
    /\ cp_skip = SKIP
    /\ out = NoOut
    /\ passes = 0
    /\ step = NoStep
    /\ calls = <<>>
    /\ obs = NoObs
    /\ end_reason = NoReason
    /\ pulls = 0
    /\ counted = NoCount
    /\ blob \in blobs
    /\ parsed = NoParse

InitWith(buses, clocks, buttons) == InitOf(buses, clocks, buttons, {<<>>})

\* prev_b1 = button_1.value: the button may be held down at power-up
Init == InitWith(SeqsUpTo(SmallPool, MaxDevices), {0}, BOOLEAN)

InitScan ==
    InitWith({Append(q, x) : q \in SeqsUpTo(PrefixPool, MaxDevices - 1),
                             x \in ScanPool}, {0}, {TRUE})

InitRead == InitWith({<<x>> : x \in ReadPool}, {0, TicksPeriod - 2}, {TRUE})

InitPoll == InitWith({<<x>> : x \in PollPool}, {0}, {TRUE})

InitSkip == InitWith({<<MidiDevice("full", 64, 1)>>}, {0}, {TRUE})

\* No device is attached; the parser is handed the blob
InitParse == InitOf({<<>>}, {0}, {TRUE}, Blobs)

\* ------------------------------------------------------------------------
\* Actions
\* ------------------------------------------------------------------------
\* An exception reached main's try statement: a caught one restarts the
\* outer loop (top of the loop: device_cache = {}, r = None), any other
\* ends the program.  A break out of the read loop restarts it as well.
Restart(reason) ==
    /\ pc' = "scan"
    /\ device_cache' = FreshCache(device_cache)
    /\ r' = NoneVal
    /\ scan_idx' = 0
    /\ passes' = 0
    /\ end_reason' = reason

Crash(reason) ==
    /\ pc' = "crashed"
    /\ end_reason' = reason
    /\ UNCHANGED <<device_cache, r, scan_idx, passes>>

Propagate(exc, where) ==
    IF MainCatches(exc) THEN Restart(<<where, exc>>)
    ELSE Crash(<<where, exc>>)

CountPass(n) == IF n < MaxPasses THEN n + 1 ELSE n

\* sleep(0.4); r = find_usb_device(device_cache): the call starts and
\* core.find(find_all=True) enumerates the bus.  With no device attached
\* the loop body never runs and the call returns None.
\* main's dev, the generator of the last read loop and the skip counters
\* are dead here (main assigns them again before it reads them): the model
\* forgets their values.
BeginPass ==
    /\ pc = "scan"
    /\ scan_idx = 0
    /\ step' = NoStep
    /\ calls' = <<>>
    /\ IF Len(bus) = 0
       THEN /\ scan_idx' = 0
            /\ passes' = CountPass(passes)
       ELSE /\ scan_idx' = 1
            /\ passes' = passes
    /\ item' = NoItem
    /\ out' = NoOut
    /\ obs' = NoObs
    /\ end_reason' = NoReason
    /\ dev' = NoneVal
    /\ gen' = NoneVal
    /\ pp_skip' = SKIP
    /\ cp_skip' = SKIP
    /\ counted' = NoCount
    /\ UNCHANGED <<bus, clock, pc, device_cache, r, prev_b1, pulls, blob,
                   parsed>>

\* One iteration of the loop of find_usb_device, and the return of the
\* call when the iteration returns or was the last one.
ScanDevice ==
    /\ pc = "scan"
    /\ scan_idx >= 1
    /\ \E fault \in Faults :
         LET i == scan_idx
             t == ScanTry([idx |-> i], bus[i], device_cache, fault)
             caught == t.kind = "raise" /\ ScanCatches(t.exc)
             returns == ~(caught /\ i < Len(bus))
         IN /\ step' = [idx |-> i, why |-> t.why, exc |-> t.exc,
                        caught |-> caught, types |-> t.types,
                        returned |-> returns]
            /\ IF t.kind = "raise" /\ ~caught
               THEN Propagate(t.exc, "scan")
               ELSE /\ device_cache' = t.cache
                    /\ end_reason' = NoReason
                    /\ IF ~returns
                       THEN /\ scan_idx' = i + 1
                            /\ UNCHANGED <<pc, r, passes>>
                       ELSE /\ scan_idx' = 0
                            /\ passes' = CountPass(passes)
                            /\ r' = t.result
                            /\ pc' = IF t.result = NoneVal THEN "scan"
                                     ELSE "connect"
    /\ UNCHANGED <<bus, clock, dev, gen, item, prev_b1, pp_skip, cp_skip,
                   out, calls, obs, pulls, counted, blob, parsed>>

\* dev.input_event_generator()
input_event_generator(d) ==
    IF d.device = NoneVal THEN NoneVal ELSE NewGenerator

\* Mutant of ConstructionCalls: the driver is detached without looking at
\* is_kernel_driver_active
ConstructionCallsDetachAlways(active, fault) ==
    <<[fn |-> "is_kernel_driver_active",
       out |-> IF active THEN "True" ELSE "False"],
      [fn |-> "detach_kernel_driver",
       out |-> IF fault = "detach" THEN "USBError" ELSE "ok"]>>
    \o (IF fault = "detach" THEN <<>>
        ELSE <<[fn |-> "set_configuration",
                out |-> IF fault = "set_configuration" THEN "USBError"
                        ELSE "ok"]>>)

\* The calls MIDIInputDevice.__init__ makes on the device, in order, each
\* with what it returned or raised
ConstructionCalls(active, fault) ==
    <<[fn |-> "is_kernel_driver_active",
       out |-> IF active THEN "True" ELSE "False"]>>
    \o (IF active
        THEN <<[fn |-> "detach_kernel_driver",
                out |-> IF fault = "detach" THEN "USBError" ELSE "ok"]>>
        ELSE <<>>)
    \o (IF fault = "detach" THEN <<>>
        ELSE <<[fn |-> "set_configuration",
                out |-> IF fault = "set_configuration" THEN "USBError"
                        ELSE "ok"]>>)

\* dev = MIDIInputDevice(r) and the statements up to the for loop.
\* active is device.is_kernel_driver_active(1); fault names the device call
\* that raises USBError, if any.
Connect ==
    /\ pc = "connect"
    /\ \E active \in BOOLEAN, fault \in {"none", "detach", "set_configuration"} :
         /\ fault = "detach" => active
         /\ calls' = ConstructionCalls(active, fault)
         /\ IF fault # "none"
            THEN /\ Propagate("USBError", "connect")
                 /\ UNCHANGED <<dev, gen, pp_skip, cp_skip>>
            ELSE LET d == ResolveEndpoints(r.device, r.descriptor) IN
                 /\ dev' = d
                 /\ r' = NoneVal
                 /\ device_cache' = {}
                 /\ pp_skip' = SKIP
                 /\ cp_skip' = SKIP
                 /\ gen' = input_event_generator(d)
                 /\ pc' = "read"
                 /\ end_reason' = NoReason
                 /\ UNCHANGED <<scan_idx, passes>>
    /\ step' = NoStep
    /\ counted' = NoCount
    /\ UNCHANGED <<bus, clock, item, obs, out, prev_b1, pulls, blob, parsed>>

\* What device.read(in_addr, data, timeout=1) may do, datas being the
\* contents the device may send
ReadIO(datas, max_packet) ==
    {[kind |-> "data", bytes |-> b] :
        b \in {x \in datas : Len(x) <= max_packet}}
    \cup {[kind |-> "USBTimeoutError", bytes |-> <<>>],
          [kind |-> "USBError", bytes |-> <<>>]}

BufferSize(d) ==
    IF d.int1_endpoint_in = NoneVal THEN 0
    ELSE Min(64, d.int1_endpoint_in.wMaxPacketSize)

\* The pressure messages counted once the loop body parsed the item `it`:
\* cin = data[0] & 0x0f is 0x0a (polyphonic) or 0x0d (channel)
Count(c, it, ctl) ==
    IF ctl = "break" \/ it.kind # "data" \/ Len(it.bytes) < 1 THEN c
    ELSE LET cin == At(it.bytes, 0) % 16 IN
         IF cin = 10 THEN [c EXCEPT !.pp = @ + 1]
         ELSE IF cin = 13 THEN [c EXCEPT !.cp = @ + 1]
         ELSE c

\* One iteration of `for data in dev.input_event_generator()`: next() of
\* the generator, then the loop body.  tick is the time since the previous
\* pull, gap the time between the two ticks_ms() calls of a first pull,
\* button_value is button_1.value.
PullUpTo(most, ticks, gaps, buttons, datas) ==
    /\ pc = "read"
    /\ pulls < most
    /\ pulls' = pulls + 1
    /\ \E tick \in ticks,
          gap \in (IF gen.state = "created" THEN gaps ELSE {0}),
          button_value \in buttons,
          io \in ReadIO(datas, BufferSize(dev)) :
         LET first == gen.state = "created"
             now0 == (clock + tick) % TicksPeriod
             now1 == (now0 + gap) % TicksPeriod
             speed == bus[dev.device.idx].speed
             n == GenNext(gen, dev, speed, now0, now1, io)
             t0 == IF first THEN now0 ELSE gen.t0
             truly == IF first THEN gap ELSE tick
             base == IF first \/ obs.read THEN 0 ELSE obs.elapsed
             wrapped == t0 + truly >= TicksPeriod
             b == MainBody(n.item, button_value, prev_b1, pp_skip, cp_skip)
         IN /\ clock' = now1
            /\ gen' = IF n.kind = "yield" /\ b.ctl = "break"
                       THEN DroppedGenerator ELSE n.gen
            /\ obs' = [pulled |-> TRUE,
                       timed |-> n.timed,
                       read |-> n.read,
                       io |-> IF n.read THEN io.kind ELSE "none",
                       elapsed |-> base + truly,
                       rolled |-> wrapped \/
                                  (~first /\ ~obs.read /\ obs.rolled),
                       rx |-> IF n.read /\ io.kind = "data" THEN io.bytes
                              ELSE <<>>,
                       t0 |-> t0, t1 |-> now1, delta |-> n.delta,
                       tick |-> truly,
                       period |-> n.period]
            /\ IF n.kind = "raise"
               THEN /\ Propagate(n.exc, "read")
                    /\ item' = NoItem
                    /\ out' = NoOut
                    /\ UNCHANGED <<prev_b1, pp_skip, cp_skip, counted>>
               ELSE /\ item' = n.item
                    /\ counted' = Count(counted, n.item, b.ctl)
                    /\ prev_b1' = b.prev_b1
                    /\ pp_skip' = b.pp_skip
                    /\ cp_skip' = b.cp_skip
                    /\ out' = b.out
                    /\ IF b.ctl = "break" THEN Restart(<<"read", "button">>)
                       ELSE IF b.ctl = "crash"
                       THEN Crash(<<"read", b.exc>>)
                       ELSE /\ end_reason' = NoReason
                            /\ UNCHANGED <<pc, device_cache, r, scan_idx,
                                           passes>>
    /\ calls' = <<>>
    /\ UNCHANGED <<bus, dev, step, blob, parsed>>

\* The read loop as the specifications below bound it
Pull(ticks, gaps, buttons, datas) ==
    PullUpTo(MaxPulls, ticks, gaps, buttons, datas)

\* The descriptor parser applied to a blob: split_desc(blob)
ParseSplit ==
    /\ parsed' = [fn |-> "split_desc", slices |-> split_desc(blob)]
    /\ UNCHANGED <<bus, clock, pc, device_cache, r, scan_idx, dev, gen, item,
                   prev_b1, pp_skip, cp_skip, out, passes, step, calls, obs,
                   end_reason, pulls, counted, blob>>

\* ConfigDesc(blob)
ParseConfigDesc ==
    /\ parsed' = [fn |-> "ConfigDesc", desc |-> ConfigDesc(blob)]
    /\ UNCHANGED <<bus, clock, pc, device_cache, r, scan_idx, dev, gen, item,
                   prev_b1, pp_skip, cp_skip, out, passes, step, calls, obs,
                   end_reason, pulls, counted, blob>>

\* EndpointDesc(blob)
ParseEndpointDesc ==
    /\ parsed' = [fn |-> "EndpointDesc", desc |-> EndpointDesc(blob)]
    /\ UNCHANGED <<bus, clock, pc, device_cache, r, scan_idx, dev, gen, item,
                   prev_b1, pp_skip, cp_skip, out, passes, step, calls, obs,
                   end_reason, pulls, counted, blob>>

\* desc.read_configuration(device) for a device that answers the
\* configuration request with the blob; nth tells a first call on the
\* Descriptor (1) from a repeated one (2)
ParseConfiguration ==
    /\ LET again == parsed.fn = "read_configuration"
           self == IF again THEN parsed.tree ELSE EmptyPlaceholder
       IN parsed' = [fn |-> "read_configuration",
                     tree |-> read_configuration_on(self, get_desc(blob, 256)),
                     nth |-> IF again THEN 2 ELSE 1]
    /\ UNCHANGED <<bus, clock, pc, device_cache, r, scan_idx, dev, gen, item,
                   prev_b1, pp_skip, cp_skip, out, passes, step, calls, obs,
                   end_reason, pulls, counted, blob>>

\* desc.input_endpoints(n) and desc.output_endpoints(n) on the tree a
\* successful read_configuration built
ParseEndpoints ==
    /\ parsed.fn = "read_configuration"
    /\ parsed.tree.err = "none"
    /\ \E n \in 0..2 :
         parsed' = [fn |-> "endpoints", interface |-> n,
                    interfaces |-> parsed.tree.interfaces,
                    ins |-> input_endpoints(parsed.tree.interfaces, n),
                    outs |-> output_endpoints(parsed.tree.interfaces, n)]
    /\ UNCHANGED <<bus, clock, pc, device_cache, r, scan_idx, dev, gen, item,
                   prev_b1, pp_skip, cp_skip, out, passes, step, calls, obs,
                   end_reason, pulls, counted, blob>>

\* The whole program, the clock advancing 1 ms between pulls
Next ==
    BeginPass \/ ScanDevice \/ Connect \/ Pull({1}, {0}, BOOLEAN, ReadData)

Spec == Init /\ [][Next]_vars

\* Scanning and connecting with the devices of ScanPool attached; the read
\* loop is not entered
NextScan == BeginPass \/ ScanDevice \/ Connect

SpecScan == InitScan /\ [][NextScan]_vars

\* The whole program with one device of ReadPool attached, the clock
\* advancing 0..MaxTick ms between pulls, from power-up or from just
\* before a rollover of the clock; the button is not touched
NextRead ==
    \/ BeginPass
    \/ ScanDevice
    \/ Connect
    \/ Pull(0..MaxTick, {0, 1}, {TRUE}, TimedData)

SpecRead == InitRead /\ [][NextRead]_vars

\* The whole program with one device of PollPool attached
NextPoll ==
    \/ BeginPass
    \/ ScanDevice
    \/ Connect
    \/ Pull({0, 1}, {0}, {TRUE}, {<<9, 144, 60, 127>>})

SpecPoll == InitPoll /\ [][NextPoll]_vars

\* The whole program with a full-speed MIDI device that sends pressure
\* messages, the read loop running for MaxEvents iterations
NextSkip ==
    \/ BeginPass
    \/ ScanDevice
    \/ Connect
    \/ PullUpTo(MaxEvents, {1}, {0}, {TRUE}, PressureData)

SpecSkip == InitSkip /\ [][NextSkip]_vars

\* The descriptor parser applied to the blobs
NextParse ==
    \/ ParseSplit
    \/ ParseConfigDesc
    \/ ParseEndpointDesc
    \/ ParseConfiguration
    \/ ParseEndpoints

SpecParse == InitParse /\ [][NextParse]_vars

\* No find_usb_device call is running
NoCallRunning == pc # "scan" \/ scan_idx = 0

\* Scanning under the scheduling of main: the loop `while r is None` calls
\* find_usb_device again and again (BeginPass is taken when it can be), and
\* every call returns, its loop running over a finite enumeration
SpecScanLive ==
    InitScan /\ [][NextScan]_vars /\ WF_vars(BeginPass) /\ []<>NoCallRunning

\* ------------------------------------------------------------------------
\* Properties
\* ------------------------------------------------------------------------
\* What the firmware of device p declares, read off its description and not
\* off the bytes: the triple of its first interface numbered n
RECURSIVE FirmwareTripleFrom(_, _, _)
FirmwareTripleFrom(ifs, k, n) ==
    IF k > Len(ifs) THEN NoneTriple
    ELSE IF ifs[k].num = n THEN ifs[k].tri
    ELSE FirmwareTripleFrom(ifs, k + 1, n)

IsMidiFirmware(p) ==
    /\ p.blen = 18
    /\ p.cfg = "tree"
    /\ p.dev = Sig[1]
    /\ FirmwareTripleFrom(p.ifs, 1, 0) = Sig[2]
    /\ FirmwareTripleFrom(p.ifs, 1, 1) = Sig[3]

\* The fingerprint a successful read of device p's descriptor gives
KeyOf(p) == Pad(DeviceDescWire(p), 18)

\* A ScanDevice step examines the device scan_idx and no transfer fails
ExaminesWithoutFault ==
    /\ pc = "scan"
    /\ scan_idx >= 1
    /\ step'.idx = scan_idx
    /\ step'.exc \notin {"USBError", "USBTimeoutError"}

\* C1 (as stated): in a call of find_usb_device that finds the first
\* device's fingerprint in device_cache, as a second call of the session
\* does, the call returns None and issues no control transfer.
C1_SecondCallIssuesNoTransfer ==
    [][(ExaminesWithoutFault /\ scan_idx = 1 /\ KeyOf(bus[1]) \in device_cache)
         => (r' = NoneVal /\ step'.returned /\ step'.types = <<>>)]_vars

\* C1 (amended): such a call returns None after exactly one control
\* transfer, the request for that device's device descriptor; it requests
\* no configuration descriptor and examines no other device.
C1_SecondCallReadsOnlyDeviceDescriptor ==
    [][(ExaminesWithoutFault /\ scan_idx = 1 /\ KeyOf(bus[1]) \in device_cache)
         => (r' = NoneVal /\ step'.returned /\ step'.types = <<1>>
             /\ pc' = "scan" /\ scan_idx' = 0)]_vars

C1_Witness ==
    /\ Len(bus) = 1
    /\ ~IsMidiFirmware(bus[1])
    /\ step.idx = 1
    /\ step.why = "seen"
    /\ step.types = <<1>>
    /\ passes >= 1
    /\ r = NoneVal

\* C2: with int1_endpoint_in = None the input event sequence is empty:
\* pulling it raises no error.
C2_NoInputEndpointIsEmptySequence ==
    (obs.pulled /\ dev # NoneVal /\ dev.int1_endpoint_in = NoneVal)
        => (end_reason = NoReason /\ pc # "crashed")

\* C3: every item yielded is the no-data marker or exactly one 4-byte
\* packet: after a bulk read of a positive multiple of 4 bytes the item is
\* the first 4-byte frame of the buffer, never the whole buffer.
C3_EveryItemIsOnePacket ==
    (obs.read /\ Len(obs.rx) > 0 /\ Len(obs.rx) % 4 = 0)
        => (item.kind = "data" /\ item.bytes = SubSeq(obs.rx, 1, 4))

\* C4 (as stated): while the clock has not rolled over, a bulk read is
\* issued only when elapsed_ms * 4 >= 3 * P.
C4_ReadOnlyAfter75Percent ==
    (obs.read /\ ~obs.rolled) => obs.elapsed * 4 >= 3 * obs.period

\* C4 (amended): while the clock has not rolled over, a bulk read is issued
\* only when elapsed_ms >= floor(3 * P / 4), and a pull before that yields
\* the no-data marker without a bus read.
C4_ReadOnlyAfterFloor75Percent ==
    (obs.timed /\ ~obs.rolled)
        => /\ obs.read => obs.elapsed >= (3 * obs.period) \div 4
           /\ obs.elapsed < (3 * obs.period) \div 4
                => (~obs.read /\ item = NoItem /\ obs.rx = <<>>)

C4_Witness ==
    /\ obs.read
    /\ ~obs.rolled
    /\ obs.period = 3
    /\ obs.elapsed = 2

\* C5: elapsed_ms_generator yields (t1 - t0) mod 2^29, the time that passed
\* between its two readings also across a rollover, so that no bulk read
\* comes before the threshold.
C5_DeltaIsElapsedAcrossRollover ==
    obs.timed
        => /\ obs.delta = (obs.t1 - obs.t0) % TicksPeriod
           /\ obs.delta = obs.tick
           /\ obs.read => obs.elapsed >= PollTarget(obs.period)

\* C6: a ValueError, USBError or USBTimeoutError raised for one device is
\* caught: the call does not raise, the scan goes on with the next device
\* (or returns None after the last), and a matching device enumerated after
\* failing ones is returned by the same pass.
C6_DeviceErrorsDoNotAbortPass ==
    /\ step.exc \in {"ValueError", "USBError", "USBTimeoutError"}
         => /\ pc = "scan"
            /\ end_reason = NoReason
            /\ IF step.idx < Len(bus)
               THEN scan_idx = step.idx + 1 /\ ~step.returned
               ELSE scan_idx = 0 /\ r = NoneVal
    /\ (step.idx > 1 /\ step.exc = "none" /\ step.types = <<1, 2>>
        /\ IsMidiFirmware(bus[step.idx]))
         => (pc = "connect" /\ r # NoneVal /\ r.device = [idx |-> step.idx])

C6_Witness ==
    /\ step.idx = 2
    /\ pc = "connect"
    /\ r # NoneVal
    /\ r.device = [idx |-> 2]
    /\ ~IsMidiFirmware(bus[1])

\* C7: a timeout of the bulk read yields the no-data marker and leaves the
\* sequence pullable; a USBError that is no timeout is propagated and
\* finishes the sequence; nothing else ends the sequence.
C7_OnlyTransportErrorEndsSequence ==
    /\ obs.io = "USBTimeoutError"
         => (item = NoItem /\ gen.state = "suspended" /\ pc = "read")
    /\ obs.io = "USBError"
         => (gen.state = "finished" /\ end_reason = <<"read", "USBError">>)
    /\ (obs.pulled /\ gen.state = "finished") => obs.io = "USBError"

\* C8: when the fingerprint of the device examined is already in
\* device_cache, find_usb_device returns None at once: no configuration
\* descriptor is requested, no later device is examined and device_cache
\* is left as it was.
C8_SeenFingerprintAbortsPass ==
    [][(ExaminesWithoutFault /\ KeyOf(bus[scan_idx]) \in device_cache
        /\ bus[scan_idx].blen = 18)
         => (r' = NoneVal /\ step'.returned /\ scan_idx' = 0 /\ pc' = "scan"
             /\ step'.types = <<1>> /\ device_cache' = device_cache)]_vars

C8_Witness ==
    /\ step.why = "seen"
    /\ step.idx < Len(bus)
    /\ step.returned
    /\ scan_idx = 0
    /\ KeyOf(bus[step.idx + 1]) \notin device_cache

\* C9: when the read loop ends by a USBError of the polling, by a USBError
\* or ValueError of the construction, or by the button, main is back at
\* scanning, and the first find_usb_device call of every session gets an
\* empty device_cache.
C9_SessionStartsWithEmptyCache ==
    /\ (pc = "scan" /\ scan_idx = 0 /\ passes = 0) => device_cache = {}
    /\ (end_reason[1] \in {"read", "connect"}
        /\ end_reason[2] \in {"USBError", "USBTimeoutError", "ValueError",
                              "button"})
         => (pc = "scan" /\ scan_idx = 0 /\ passes = 0 /\ r = NoneVal
             /\ device_cache = {})

C9_Witness ==
    /\ end_reason = <<"connect", "USBError">>
    /\ pc = "scan"
    /\ passes = 0
    /\ device_cache = {}

\* C10: a device not yet seen whose descriptors are read without error is
\* returned as a ScanResult if and only if its device triple is (0,0,0),
\* its interface 0 triple (1,1,0) and its interface 1 triple (1,3,0).
C10_MatchIffSignature ==
    (step.exc = "none" /\ step.types = <<1, 2>>)
        => /\ (r # NoneVal) = IsMidiFirmware(bus[step.idx])
           /\ r # NoneVal => r.device = [idx |-> step.idx]

C10_Witness ==
    /\ step.exc = "none"
    /\ step.types = <<1, 2>>
    /\ r = NoneVal
    /\ bus[step.idx].dev = Sig[1]
    /\ FirmwareTripleFrom(bus[step.idx].ifs, 1, 0) = Sig[2]
    /\ FirmwareTripleFrom(bus[step.idx].ifs, 1, 1) = <<1, 3, 1>>

\* The endpoint the read generator polls and the link speed of its device
PolledInterval == dev.int1_endpoint_in.bInterval

PolledSpeed == bus[dev.device.idx].speed

\* The generator has computed its period and is suspended at a yield
PeriodComputed == pc = "read" /\ gen.state = "suspended"

C12_HighSpeedPeriodWithinAdvertised ==
    (PeriodComputed /\ PolledSpeed = "high")
        => /\ gen.interval = (2 ^ (PolledInterval - 1)) \div 8
           /\ gen.interval * 8 <= 2 ^ (PolledInterval - 1)

\* C13: a bulk read that succeeds with zero bytes yields the no-data
\* marker, not an empty packet, and the consumer goes on.
C13_ZeroLengthReadYieldsNoData ==
    (obs.read /\ obs.io = "data" /\ obs.rx = <<>>)
        => (item = NoItem /\ pc # "crashed" /\ end_reason = NoReason)

\* The loop body has just parsed a message with the code index number c
HandledCin(c) ==
    /\ pc = "read"
    /\ obs.pulled
    /\ item.kind = "data"
    /\ Len(item.bytes) >= 1
    /\ At(item.bytes, 0) % 16 = c

\* C14: with SKIP = 6, of the polyphonic key pressure messages of one
\* connection, numbered from 1, exactly the messages 7, 14, 21, ... are
\* passed through and all others dropped, and likewise for the channel
\* pressure messages counted on their own; each counter stays in 0..6, is 6
\* after each passed message and is not changed by messages of another
\* kind.
C14_SkipCounterThinning ==
    /\ pp_skip \in 0..6
    /\ cp_skip \in 0..6
    /\ pp_skip = 6 - (counted.pp % 7)
    /\ cp_skip = 6 - (counted.cp % 7)
    /\ HandledCin(10)
         => /\ counted.pp >= 1
            /\ (out.kind = "echo") = (counted.pp % 7 = 0)
            /\ out.kind = "echo" => (out.bytes = item.bytes /\ pp_skip = 6)
            /\ out.kind # "echo" => out = NoOut
    /\ HandledCin(13)
         => /\ counted.cp >= 1
            /\ (out.kind = "echo") = (counted.cp % 7 = 0)
            /\ out.kind = "echo" => (out.bytes = item.bytes /\ cp_skip = 6)
            /\ out.kind # "echo" => out = NoOut

C14_Witness ==
    /\ HandledCin(10)
    /\ counted.pp = 14
    /\ out.kind = "echo"
    /\ pp_skip = 6

\* C15: split_desc returns, in order, the contiguous length-prefixed slices
\* of the blob from offset 0: their concatenation is a prefix of the blob,
\* each slice is as long as its first byte says, and the slices end where
\* the blob is exhausted, the length byte is 0 or the declared length runs
\* past the end of the blob.
C15_SplitDescWholeSlices ==
    parsed.fn = "split_desc"
        => LET s == parsed.slices
               flat == Concat(s, 1)
               c == Len(flat)
           IN /\ c <= Len(blob)
              /\ flat = SubSeq(blob, 1, c)
              /\ \A i \in 1..Len(s) : Len(s[i]) >= 1 /\ s[i][1] = Len(s[i])
              /\ \/ c = Len(blob)
                 \/ blob[c + 1] = 0
                 \/ c + blob[c + 1] > Len(blob)

C15_Witness ==
    /\ parsed.fn = "split_desc"
    /\ Len(parsed.slices) = 2
    /\ Len(Concat(parsed.slices, 1)) < Len(blob)
    /\ blob[Len(Concat(parsed.slices, 1)) + 1] # 0

\* The sub-descriptors read_configuration walks for the blob
SubDescs == split_desc(get_desc(blob, 256))

\* In list, a sub-descriptor of the kind IsEp stands at a place before
\* which no sub-descriptor of the kind IsIf stands
StandsBeforeAny(list, IsEp(_), IsIf(_)) ==
    \E j \in 1..Len(list) :
        /\ IsEp(list[j])
        /\ \A k \in 1..(j - 1) : ~IsIf(list[k])

HasType(d, t) == Len(d) >= 2 /\ d[2] = t

\* C16: read_configuration fails with ValueError whenever a
\* sub-descriptor of type 5 stands before any sub-descriptor of type 4.
C16_Type5BeforeInterfaceFails ==
    (parsed.fn = "read_configuration"
     /\ StandsBeforeAny(SubDescs, LAMBDA d : HasType(d, 5),
                        LAMBDA d : HasType(d, 4)))
        => parsed.tree.err = "ValueError"

\* The endpoints of the interfaces numbered n, in parse order
RECURSIVE EndpointsOfNumber(_, _, _)
EndpointsOfNumber(interfaces, k, n) ==
    IF k > Len(interfaces) THEN <<>>
    ELSE (IF interfaces[k].bInterfaceNumber = n THEN interfaces[k].endpoint
          ELSE <<>>) \o EndpointsOfNumber(interfaces, k + 1, n)

C18_ConfigDescValidatesAndParses ==
    parsed.fn = "ConfigDesc"
        => /\ parsed.desc.ok = (Len(blob) = 9 /\ blob[1] = 9 /\ blob[2] = 2)
           /\ parsed.desc.ok
                => /\ parsed.desc.bNumInterfaces = blob[5]
                   /\ parsed.desc.bConfigurationValue = blob[6]
                   /\ parsed.desc.bMaxPower = blob[9]
           /\ blob = <<9, 2, 18, 0, 1, 1, 0, 128, 50>>
                => /\ parsed.desc.ok
                   /\ parsed.desc.bNumInterfaces = 1
                   /\ parsed.desc.bConfigurationValue = 1
                   /\ parsed.desc.bMaxPower = 50

C18_Witness ==
    /\ parsed.fn = "ConfigDesc"
    /\ blob = <<9, 2, 18, 0, 1, 1, 0, 128, 50>>
    /\ parsed.desc.ok
    /\ parsed.desc.bMaxPower = 50

\* C19: if a device with the matching signature stays attached, the session
\* starts with an empty device_cache and no descriptor read fails, the
\* repeated find_usb_device calls eventually return a ScanResult for that
\* device, wherever it is in the enumeration order and whatever
\* non-matching devices are attached.
C19_EventualMatch ==
    (\E i \in 1..Len(bus) : IsMidiFirmware(bus[i]))
        => \/ <>(step.exc \in {"USBError", "USBTimeoutError"})
           \/ <>(pc = "connect" /\ r # NoneVal
                 /\ IsMidiFirmware(bus[r.device.idx]))

\* C20: device_cache holds the fingerprint of a device only if the device
\* was fully classified: a device whose configuration read or parse raised
\* is not recorded.
C20_SeenOnlyIfClassified ==
    step.why \in {"config_transfer", "config_parse"}
        => KeyOf(bus[step.idx]) \notin device_cache

\* The places of the calls of fn in the sequence of construction calls
CallsOf(fn) == {k \in 1..Len(calls) : calls[k].fn = fn}

\* C21: the construction first asks is_kernel_driver_active(1), calls
\* detach_kernel_driver(1) iff the answer is true and before
\* set_configuration, and resolves the endpoints after set_configuration.
\* When the detach or set_configuration raises, no later step runs, the
\* error reaches main, no MIDIInputDevice is obtained and the session ends
\* without a bulk read.
C21_ConstructionOrderedAllOrNothing ==
    /\ calls # <<>>
         => /\ calls[1].fn = "is_kernel_driver_active"
            /\ (CallsOf("detach_kernel_driver") # {}) = (calls[1].out = "True")
            /\ CallsOf("detach_kernel_driver") \subseteq {2}
            /\ \A j \in CallsOf("set_configuration") :
                 /\ j = Len(calls)
                 /\ \A k \in CallsOf("detach_kernel_driver") : k < j
            /\ \A k \in 1..Len(calls) :
                 calls[k].out = "USBError"
                     => /\ k = Len(calls)
                        /\ end_reason = <<"connect", "USBError">>
                        /\ pc = "scan"
                        /\ dev = NoneVal
                        /\ gen = NoneVal
                        /\ ~obs.read
            /\ calls[Len(calls)].out # "USBError"
                 => /\ calls[Len(calls)].fn = "set_configuration"
                    /\ pc = "read"
                    /\ dev # NoneVal
    /\ obs.read => dev # NoneVal

C21_Witness ==
    /\ Len(calls) = 2
    /\ calls[1].out = "True"
    /\ calls[2] = [fn |-> "detach_kernel_driver", out |-> "USBError"]
    /\ pc = "scan"
    /\ dev = NoneVal

\* C22: constructing an EndpointDesc succeeds only for a record of type 5
\* whose length is in 7..9, and read_configuration fails on a
\* sub-descriptor of type 5 whose length is outside 7..9: it is neither
\* accepted nor skipped.
C22_EndpointDescValidatesLength ==
    /\ (parsed.fn = "EndpointDesc" /\ parsed.desc.ok)
         => (Len(blob) \in 7..9 /\ blob[1] \in 7..9 /\ blob[2] = 5)
    /\ (parsed.fn = "read_configuration"
        /\ \E k \in 1..Len(SubDescs) :
              HasType(SubDescs[k], 5) /\ SubDescs[k][1] \notin 7..9)
         => parsed.tree.err = "ValueError"

\* The 4-byte MIDI-USB packets of the bytes b, in order
Frames(b) == [k \in 1..(Len(b) \div 4) |-> SubSeq(b, 4 * k - 3, 4 * k)]

\* System Real-Time: code index number 0xF and status 0xF8..0xFF
IsRealTime(f) == f[1] % 16 = 15 /\ f[2] \in 248..255

IsPressure(f) == f[1] % 16 \in {10, 13}

\* C23: of the packets a bulk read brought, no System Real-Time packet is
\* echoed, and every other packet that is no pressure packet is echoed
\* once, in arrival order (the read loop going on).
C23_RealTimeNeverEchoed ==
    (obs.read /\ obs.io = "data" /\ pc = "read")
        => LET echoed == IF out.kind = "echo" THEN Frames(out.bytes) ELSE <<>>
           IN /\ \A k \in 1..Len(echoed) : ~IsRealTime(echoed[k])
              /\ SelectSeq(Frames(obs.rx),
                           LAMBDA f : ~IsRealTime(f) /\ ~IsPressure(f))
                   = SelectSeq(echoed, LAMBDA f : ~IsPressure(f))

\* The places in the sequence list of the sub-descriptors of the kind Is
PlacesOf(list, Is(_)) ==
    SelectSeq([k \in 1..Len(list) |-> k], LAMBDA k : Is(list[k]))

IsInterfaceRecord(d) == HasType(d, 4) /\ d[1] = 9

IsEndpointRecord(d) == HasType(d, 5) /\ d[1] \in 7..9

\* C24: after a successful read_configuration, a first or a repeated one,
\* interfaces holds the interface descriptors of the blob in blob order and
\* nothing else, and each interface owns, in blob order, the endpoint
\* descriptors that stand between it and the next interface descriptor.
C24_TreeFollowsBlobOrder ==
    (parsed.fn = "read_configuration" /\ parsed.tree.err = "none")
        => LET list == SubDescs
               at == PlacesOf(list, IsInterfaceRecord)
               got == parsed.tree.interfaces
               endpoints == PlacesOf(list, IsEndpointRecord)
               Between(j, k) ==
                   /\ k > at[j]
                   /\ j < Len(at) => k < at[j + 1]
           IN /\ Len(got) = Len(at)
              /\ Len(parsed.tree.configs)
                   = Len(PlacesOf(list, LAMBDA d : HasType(d, 2) /\ d[1] = 9))
              /\ \A j \in 1..Len(at) :
                   LET d == list[at[j]]
                       eps == SelectSeq(endpoints, LAMBDA k : Between(j, k))
                   IN /\ got[j].bInterfaceNumber = d[3]
                      /\ got[j].bInterfaceClass = d[6]
                      /\ got[j].bInterfaceSubClass = d[7]
                      /\ got[j].bInterfaceProtocol = d[8]
                      /\ Len(got[j].endpoint) = Len(eps)
                      /\ \A i \in 1..Len(eps) :
                           /\ got[j].endpoint[i].bEndpointAddress
                                = list[eps[i]][3]
                           /\ got[j].endpoint[i].wMaxPacketSize
                                = list[eps[i]][6] * 256 + list[eps[i]][5]
                           /\ got[j].endpoint[i].bInterval = list[eps[i]][7]

C24_Witness ==
    /\ parsed.fn = "read_configuration"
    /\ parsed.tree.err = "none"
    /\ parsed.nth = 2
    /\ Len(parsed.tree.interfaces) = 2
    /\ parsed.tree.interfaces[1].endpoint = <<>>
    /\ Len(parsed.tree.interfaces[2].endpoint) = 1
    /\ parsed.tree.interfaces[2].endpoint[1].bEndpointAddress = 129

\* C25: the read loop is abandoned for the button exactly at a pull where
\* the button is observed pressed after having last been observed released
\* (prev_b1 falls from TRUE to FALSE); while the button is held, prev_b1
\* stays FALSE, also across the rescan and the next connection, so no
\* second rescan follows; prev_b1 changes only where the loop body observes
\* the button, and the generator is abandoned suspended at a yield.
C25_RescanOnFallingEdgeOnly ==
    [][/\ (end_reason' = <<"read", "button">>)
            = (pc = "read" /\ prev_b1 /\ ~prev_b1')
       /\ end_reason' = <<"read", "button">>
            => (pc' = "scan" /\ gen'.state = "dropped" /\ obs'.pulled)
       /\ prev_b1' # prev_b1 => (pc = "read" /\ obs'.pulled)]_vars

C25_Witness ==
    /\ end_reason = <<"read", "button">>
    /\ pc = "scan"
    /\ ~prev_b1
    /\ gen.state = "dropped"
    /\ pulls >= 2

====
